---- MODULE Spec2Model ----
(***************************************************************************)
(* Model of the two mechanisms the prompt-engineering notebooks rely on:   *)
(*   - the conversation memory of the multi-turn example                   *)
(*     (ConversationChain + ConversationBufferMemory: an append-only       *)
(*     transcript that is rendered and re-submitted in full on each turn), *)
(*   - the prompt template (PromptTemplate: named placeholders filled      *)
(*     from a mapping of variables).                                       *)
(* Text is a sequence of tokens, so that rendering and substitution are    *)
(* real string constructions whose output can be inspected.                *)
(***************************************************************************)
EXTENDS Integers, Sequences, FiniteSets

VARIABLES
    created,    \* the conversation objects constructed so far
    memory,     \* memory[s]: the message list of conversation s's buffer memory
    last,       \* the last call made by the notebook and what it observed
    submitted,  \* history: submitted[s] is the turns handed to conversation s
                \* by calls that succeeded, in the order of those calls
    prompt_template,  \* the template string given to create_chain
    prompt,           \* the PromptTemplate built from it
    result,           \* the last invoke of the template chain and its outcome
    earlier,          \* history: an invoke made before the last one, and whether
                      \* an invoke with other variables was made since
    rounds,           \* rounds[t]: the round thread t is making on the shared
                      \* conversation, step by step
    previous          \* history: the call made before the last direct call of
                      \* the model client

cvars == <<created, memory, last, submitted>>
hvars == <<earlier, rounds, previous>>
tvars == <<prompt_template, prompt, result, hvars>>
vars == <<created, memory, last, submitted, prompt_template, prompt, result,
          earlier, rounds, previous>>

----------------------------------------------------------------------------
(* Bounds *)

\* Total number of messages held by all conversations together.
MaxTurns == 4

\* Length of the template strings tried.
MaxTemplateLen == 7

\* The two conversation objects the notebook constructs: the one of the
\* three-question cell and the one of the comparison cell.
Sessions == {"conversation_1", "conversation_2"}

----------------------------------------------------------------------------
(* Text *)

NL == "\n"

\* The two speakers of the buffer memory, by the prefix they are rendered with.
Roles == {"Human", "AI"}

\* A role that is not one of the two speakers.
OtherRoles == {"system"}

\* What the user may type: a plain line, and a line that itself contains a
\* line break followed by a speaker label.
UserTexts == { <<"hi">>, <<"x", NL, "AI", ": ", "y">> }

\* What the model may answer: a plain line, and a multi-line answer.
ModelTexts == { <<"ok">>, <<"a", NL, "b">> }

\* The errors the model client may raise.
LLMErrors == {"RateLimitError", "APIConnectionError"}

RECURSIVE Concat(_)
\* The concatenation of a sequence of texts.
Concat(parts) ==
    IF parts = <<>> THEN <<>> ELSE Head(parts) \o Concat(Tail(parts))

Message(role, text) == [type |-> role, content |-> text]

\* Faulty variant: a message is rendered without its speaker.
MessageString_bare(m) == m.content

\* One message as it is rendered: "<prefix>: <content>".
MessageString(m) == <<m.type, ": ">> \o m.content

RECURSIVE get_buffer_string(_)
\* The buffer rendered: the messages in order, "<prefix>: <content>" each,
\* joined by a line break.
get_buffer_string(messages) ==
    IF messages = <<>> THEN <<>>
    ELSE IF Len(messages) = 1 THEN MessageString(messages[1])
    ELSE MessageString(Head(messages)) \o <<NL>> \o get_buffer_string(Tail(messages))

\* The fixed head of the conversation prompt.
Preamble == <<"The following is a friendly conversation between a human and an AI.",
              NL, NL, "Current conversation:", NL>>

\* The conversation prompt after formatting: the head, the rendered history,
\* the new input as a Human line, and the open AI line.
PromptAfterFormatting(history, input) ==
    Preamble \o history \o <<NL, "Human", ": ">> \o input \o <<NL, "AI", ":">>

----------------------------------------------------------------------------
(* The record of the last call *)

NoCall ==
    [op |-> "none", session |-> "none", role |-> "none", input |-> <<>>,
     outcome |-> "none", error |-> "none",
     sent |-> <<>>, llm_output |-> <<>>, llm_error |-> "none", output |-> <<>>,
     retry |-> FALSE]

\* predict(s, input) is made right after a predict on s with the same input
\* raised: the caller tries the round again.
IsRetry(s, input) ==
    /\ last.op = "predict" /\ last.outcome = "error"
    /\ last.session = s /\ last.input = input

TotalTurns == Len(memory["conversation_1"]) + Len(memory["conversation_2"])

\* No template chain has been built.
NoPrompt ==
    [state |-> "none", input_variables |-> {}, error |-> "none"]

\* No invoke has been made.
NoResult ==
    [op |-> "none", variables |-> <<>>, outcome |-> "none", error |-> "none",
     missing |-> {}, text |-> <<>>, sent |-> <<>>]

\* No earlier invoke is remembered.
NoEarlier == [call |-> NoResult, between |-> FALSE]

\* The threads that may make rounds on one conversation at the same time.
Threads == {"thread_1", "thread_2"}

\* A thread that has not started a round.
NoRound ==
    [pc |-> "idle", input |-> <<>>, loaded |-> <<>>, sent |-> <<>>,
     output |-> <<>>, against |-> <<>>, human_at |-> 0, ai_at |-> 0,
     overlap |-> FALSE]

\* No history: no invoke remembered, no round started, no call before.
InitHistory ==
    /\ earlier = NoEarlier
    /\ rounds = [t \in Threads |-> NoRound]
    /\ previous = NoCall

\* No conversation exists yet.
InitConversations ==
    /\ created = {}
    /\ memory = [s \in Sessions |-> <<>>]
    /\ last = NoCall
    /\ submitted = [s \in Sessions |-> <<>>]

Init ==
    /\ InitConversations
    /\ prompt_template = <<>>
    /\ prompt = NoPrompt
    /\ result = NoResult
    /\ InitHistory

----------------------------------------------------------------------------
(* The model client *)

\* What one call of the model client can do: return a text, or raise.
LLMOutcomes ==
    [ok : {TRUE}, text : ModelTexts, error : {"none"}]
        \cup [ok : {FALSE}, text : {<<>>}, error : LLMErrors]

----------------------------------------------------------------------------
(* Operations *)

\* Faulty variant: the memory object of the other conversation is handed to
\* the new one, with the messages it holds.
ConversationBufferMemory_shared(s) ==
    memory[CHOOSE o \in Sessions : o # s]

\* ConversationBufferMemory(): a new memory object for conversation s, with
\* no message.
ConversationBufferMemory(s) == <<>>

\* conversation = ConversationChain(llm=llm, memory=ConversationBufferMemory()):
\* a new conversation object with an empty buffer.
ConversationChain(s) ==
    /\ s \notin created
    /\ created' = created \cup {s}
    /\ memory' = [memory EXCEPT ![s] = ConversationBufferMemory(s)]
    /\ last' = [NoCall EXCEPT !.op = "create", !.session = s, !.outcome = "ok"]
    /\ submitted' = [submitted EXCEPT ![s] = <<>>]
    /\ UNCHANGED tvars

\* Faulty variant: the new message is put in front.
add_message_prepend(messages, m) == <<m>> \o messages

\* Faulty variant: a buffer that already holds two messages drops the new one.
add_message_capped(messages, m) ==
    IF Len(messages) >= 2 THEN messages ELSE Append(messages, m)

\* The buffer after one more message.
add_message(messages, m) == Append(messages, m)

\* Faulty variant: only the answer is saved.
save_context_answer_only(messages, input, output) ==
    Append(messages, Message("AI", output))

\* The buffer after a completed round: the input as a Human message, then the
\* answer as an AI message.
save_context(messages, input, output) ==
    add_message(add_message(messages, Message("Human", input)),
                Message("AI", output))

\* Faulty variant: only the last exchange is handed to the prompt.
load_memory_variables_window(messages) ==
    get_buffer_string(
        IF Len(messages) <= 2 THEN messages
        ELSE SubSeq(messages, Len(messages) - 1, Len(messages)))

\* The history handed to the prompt: the whole buffer, rendered.
load_memory_variables(messages) == get_buffer_string(messages)

\* Faulty variant: a call that raised is made a second time.
PredictSends_retry(messages, input, r) ==
    LET p == PromptAfterFormatting(get_buffer_string(messages), input)
    IN  IF r.ok THEN <<p>> ELSE <<p, p>>

\* The texts predict sends to the model client, one per call it makes.
PredictSends(messages, input, r) ==
    << PromptAfterFormatting(load_memory_variables(messages), input) >>

\* predict when the model client returns r.text: the round is saved and the
\* answer is returned.
PredictReturns(s, input, r) ==
    /\ memory' = [memory EXCEPT ![s] = save_context(memory[s], input, r.text)]
    /\ last' = [NoCall EXCEPT !.op = "predict", !.session = s, !.input = input,
                              !.outcome = "ok",
                              !.sent = PredictSends(memory[s], input, r),
                              !.llm_output = r.text, !.output = r.text,
                              !.retry = IsRetry(s, input)]
    /\ submitted' = [submitted EXCEPT ![s] =
            @ \o <<Message("Human", input), Message("AI", r.text)>>]

\* Faulty variant: every failure is replaced by one wrapping error.
PredictError_wrapped(e) == "ExternalInvocationError"

\* The error predict raises when the model client raised e.
PredictError(e) == e

\* Faulty variant: the input is saved before the model is called and stays.
BufferAfterFailure_keeps_input(messages, input) ==
    Append(messages, Message("Human", input))

\* The buffer after a round whose model call raised.
BufferAfterFailure(messages, input) == messages

\* predict when the model client raises r.error: nothing is saved and the
\* error reaches the caller.
PredictRaises(s, input, r) ==
    /\ memory' = [memory EXCEPT ![s] = BufferAfterFailure(memory[s], input)]
    /\ last' = [NoCall EXCEPT !.op = "predict", !.session = s, !.input = input,
                              !.outcome = "error",
                              !.sent = PredictSends(memory[s], input, r),
                              !.llm_error = r.error,
                              !.error = PredictError(r.error),
                              !.retry = IsRetry(s, input)]
    /\ UNCHANGED submitted

\* conversation.predict(input=...): one round of the conversation.
predict(s, input, r) ==
    /\ s \in created
    /\ r.ok => TotalTurns + 2 <= MaxTurns
    /\ IF r.ok THEN PredictReturns(s, input, r) ELSE PredictRaises(s, input, r)
    /\ UNCHANGED <<created, tvars>>

\* Faulty variant: a memory that has the model summarise the buffer when
\* the buffer is written or read.
BufferMemorySends_summary(messages) == <<get_buffer_string(messages)>>

\* What the memory sends to the model when its buffer is written or read:
\* a ConversationBufferMemory keeps the messages as they are and sends
\* nothing.
BufferMemorySends(messages) == <<>>

\* Faulty variant: any role is accepted.
ValidRole_any(role) == TRUE

\* Whether appendTurn accepts the role.
ValidRole(role) == role \in Roles

\* Faulty variant: the turn is appended before the role is checked, and
\* stays.
BufferAfterInvalidRole_appended(messages, role, text) ==
    Append(messages, Message(role, text))

\* The buffer after an appendTurn that was refused for its role.
BufferAfterInvalidRole(messages, role, text) == messages

\* appendTurn(transcript, role, text): one more turn at the end, or
\* InvalidRoleError for a role outside the closed set.
appendTurn(s, role, text) ==
    /\ s \in created
    /\ IF ValidRole(role)
       THEN /\ TotalTurns < MaxTurns
            /\ memory' = [memory EXCEPT ![s] = add_message(memory[s], Message(role, text))]
            /\ last' = [NoCall EXCEPT !.op = "append", !.session = s, !.role = role,
                                      !.input = text, !.outcome = "ok",
                                      !.sent = BufferMemorySends(memory'[s])]
            /\ submitted' = [submitted EXCEPT ![s] = @ \o <<Message(role, text)>>]
       ELSE /\ memory' = [memory EXCEPT ![s] =
                    BufferAfterInvalidRole(memory[s], role, text)]
            /\ last' = [NoCall EXCEPT !.op = "append", !.session = s, !.role = role,
                                      !.input = text, !.outcome = "error",
                                      !.error = "InvalidRoleError"]
            /\ UNCHANGED submitted
    /\ UNCHANGED <<created, tvars>>

\* Faulty variant: rendering consumes the buffer.
BufferAfterRender_clear(messages) == <<>>

\* The buffer after it was rendered.
BufferAfterRender(messages) == messages

\* render(transcript): the buffer rendered, as the prompt's history shows it.
render(s) ==
    /\ s \in created
    /\ memory' = [memory EXCEPT ![s] = BufferAfterRender(memory[s])]
    /\ last' = [NoCall EXCEPT !.op = "render", !.session = s, !.outcome = "ok",
                              !.output = get_buffer_string(memory[s]),
                              !.sent = BufferMemorySends(memory[s])]
    /\ UNCHANGED <<created, submitted, tvars>>

\* The text a speaker may contribute.
TextsOf(role) == IF role = "AI" THEN ModelTexts ELSE UserTexts

Next ==
    \/ \E s \in Sessions : ConversationChain(s)
    \/ \E s \in Sessions, input \in UserTexts, r \in LLMOutcomes : predict(s, input, r)
    \/ \E s \in Sessions, role \in Roles \cup OtherRoles :
            \E text \in TextsOf(role) : appendTurn(s, role, text)
    \/ \E s \in Sessions : render(s)

Spec == Init /\ [][Next]_vars

----------------------------------------------------------------------------
(* The prompt template *)

\* The characters of a template string: the two delimiters and two letters,
\* each letter a name character inside braces and literal text outside.
TemplateChars == {"{", "}", "a", "b"}

TemplateStrings ==
    UNION {[1..n -> TemplateChars] : n \in 0..MaxTemplateLen}

\* The variable names a caller passes, and the values: a plain text and a
\* text that reads like a placeholder.
Names == {<<"a">>, <<"b">>}
Values == {<<"v">>, <<"{", "a", "}">>}

\* The dictionaries handed to invoke.
Mappings == UNION {[K -> Values] : K \in SUBSET Names}

Literal(text) == [kind |-> "literal", text |-> text]
Field(name) == [kind |-> "field", text |-> name]

\* The index of the "}" that closes a field whose name starts at k, or 0 when
\* the string ends first or a "{" comes first.
RECURSIVE FieldEnd(_, _)
FieldEnd(t, k) ==
    IF k > Len(t) THEN 0
    ELSE IF t[k] = "}" THEN k
    ELSE IF t[k] = "{" THEN 0
    ELSE FieldEnd(t, k + 1)

\* The format string read from position i on: its literal characters and
\* replacement fields in order. "{{" and "}}" are the literal braces, a "{"
\* opens a field that runs to the next "}", and a lone "}" or an unclosed "{"
\* is an error.
RECURSIVE FormatterParse(_, _)
FormatterParse(t, i) ==
    IF i > Len(t) THEN [ok |-> TRUE, pieces |-> <<>>]
    ELSE IF t[i] = "{" THEN
        IF i = Len(t) THEN [ok |-> FALSE, pieces |-> <<>>]
        ELSE IF t[i + 1] = "{" THEN
            LET rest == FormatterParse(t, i + 2)
            IN  [ok |-> rest.ok, pieces |-> <<Literal(<<"{">>)>> \o rest.pieces]
        ELSE
            LET j == FieldEnd(t, i + 1)
            IN  IF j = 0 THEN [ok |-> FALSE, pieces |-> <<>>]
                ELSE LET rest == FormatterParse(t, j + 1)
                     IN  [ok |-> rest.ok,
                          pieces |-> <<Field(SubSeq(t, i + 1, j - 1))>> \o rest.pieces]
    ELSE IF t[i] = "}" THEN
        IF i < Len(t) /\ t[i + 1] = "}" THEN
            LET rest == FormatterParse(t, i + 2)
            IN  [ok |-> rest.ok, pieces |-> <<Literal(<<"}">>)>> \o rest.pieces]
        ELSE [ok |-> FALSE, pieces |-> <<>>]
    ELSE
        LET rest == FormatterParse(t, i + 1)
        IN  [ok |-> rest.ok, pieces |-> <<Literal(<<t[i]>>)>> \o rest.pieces]

\* The names of the replacement fields of a parsed format string.
get_template_variables(pieces) ==
    {pieces[i].text : i \in {k \in 1..Len(pieces) : pieces[k].kind = "field"}}

\* A formatter that keeps the values of the previous invoke and prefers
\* them to the ones it is given.
FieldText_cached(pieces, i, kwargs) ==
    IF result.op = "invoke" /\ pieces[i].text \in DOMAIN result.variables
    THEN result.variables[pieces[i].text]
    ELSE kwargs[pieces[i].text]

\* A formatter that formats a second time: a value that is itself a
\* placeholder for a given name is replaced by that name's value.
FieldText_twice(pieces, i, kwargs) ==
    LET v == kwargs[pieces[i].text]
    IN  IF /\ Len(v) = 3 /\ v[1] = "{" /\ v[3] = "}"
           /\ <<v[2]>> \in DOMAIN kwargs
        THEN kwargs[<<v[2]>>]
        ELSE v

\* Faulty variant: only the first occurrence of a name is replaced, a later
\* one is left as written.
FieldText_first_only(pieces, i, kwargs) ==
    IF \E k \in 1..(i - 1) : pieces[k] = pieces[i]
    THEN <<"{">> \o pieces[i].text \o <<"}">>
    ELSE kwargs[pieces[i].text]

\* The text a replacement field is replaced by: the value of its name.
FieldText(pieces, i, kwargs) == kwargs[pieces[i].text]

\* A formatter that joins the pieces with a blank.
format_spaced(pieces, kwargs) ==
    Concat([i \in 1..(IF pieces = <<>> THEN 0 ELSE 2 * Len(pieces) - 1) |->
        IF i % 2 = 0 THEN <<" ">>
        ELSE IF pieces[(i + 1) \div 2].kind = "field"
             THEN FieldText(pieces, (i + 1) \div 2, kwargs)
             ELSE pieces[(i + 1) \div 2].text])

\* The formatted text: the literal characters as they are and each field
\* replaced by the value of its name, in one pass.
format(pieces, kwargs) ==
    Concat([i \in 1..Len(pieces) |->
        IF pieces[i].kind = "field" THEN FieldText(pieces, i, kwargs)
        ELSE pieces[i].text])

\* The pieces of the template string of the chain.
Pieces == FormatterParse(prompt_template, 1).pieces

\* prompt = PromptTemplate.from_template(prompt_template): the template is
\* read once; a string that is no format string is refused.
from_template ==
    /\ prompt.state = "none"
    /\ LET p == FormatterParse(prompt_template, 1)
       IN  prompt' =
             IF p.ok
             THEN [state |-> "ok", input_variables |-> get_template_variables(p.pieces),
                   error |-> "none"]
             ELSE [state |-> "error", input_variables |-> {},
                   error |-> "MalformedTemplateError"]
    /\ result' = NoResult
    /\ UNCHANGED <<prompt_template, cvars>>

\* A validation that refuses an empty dictionary whatever the template
\* declares.
MissingVariables_refuses_empty(declared, variables) ==
    IF DOMAIN variables = {} THEN declared \cup {<<>>}
    ELSE declared \ DOMAIN variables

\* A validation that also refuses the keys the template does not declare.
MissingVariables_strict(declared, variables) ==
    (declared \ DOMAIN variables) \cup (DOMAIN variables \ declared)

\* A validation that reports every declared variable as soon as one is missing.
MissingVariables_all(declared, variables) ==
    IF declared \subseteq DOMAIN variables THEN {} ELSE declared

\* The declared variables that the given dictionary lacks.
MissingVariables(declared, variables) == declared \ DOMAIN variables

\* What the chain "prompt | llm" hands to the model once the prompt is
\* formatted: the formatted text, in one call.
PipeToLLM(formatted) == <<formatted>>

\* Faulty variant: the template takes the keys it is given for variables
\* it declares.
PromptAfterInvoke_learns(p, variables) ==
    [p EXCEPT !.input_variables = @ \cup DOMAIN variables]

\* The PromptTemplate after an invoke: as it was.
PromptAfterInvoke(p, variables) == p

\* chain.invoke(variables): the variables the template declares must all be
\* given, and the formatted text goes to the model.
invoke(variables) ==
    /\ prompt.state = "ok"
    /\ LET missing == MissingVariables(prompt.input_variables, variables)
       IN  result' =
             IF missing # {}
             THEN [NoResult EXCEPT !.op = "invoke", !.variables = variables,
                                   !.outcome = "error",
                                   !.error = "MissingVariableError",
                                   !.missing = missing]
             ELSE [NoResult EXCEPT !.op = "invoke", !.variables = variables,
                                   !.outcome = "ok",
                                   !.text = format(Pieces, variables),
                                   !.sent = PipeToLLM(format(Pieces, variables))]
    /\ prompt' = PromptAfterInvoke(prompt, variables)
    /\ UNCHANGED <<prompt_template, cvars>>

InitTemplate ==
    /\ InitConversations
    /\ prompt_template \in TemplateStrings
    /\ prompt = NoPrompt
    /\ result = NoResult
    /\ InitHistory

NextTemplate ==
    \/ from_template /\ UNCHANGED hvars
    \/ \E variables \in Mappings : invoke(variables) /\ UNCHANGED hvars

SpecTemplate == InitTemplate /\ [][NextTemplate]_vars

----------------------------------------------------------------------------
(* Reading a rendered text *)

\* The turns in order, each as "<role>: <text>", joined by line breaks.
RenderedTurns(turns) ==
    Concat([i \in 1..Len(turns) |->
        (IF i = 1 THEN <<>> ELSE <<NL>>) \o <<turns[i].type, ": ">> \o turns[i].content])

\* The number of turns a reader finds in a rendered text: the lines that start
\* with a speaker label.
CountTurns(text) ==
    Cardinality({i \in 1..(Len(text) - 1) :
        /\ text[i] \in Roles
        /\ text[i + 1] = ": "
        /\ (i = 1 \/ text[i - 1] = NL)})

\* A text in which a line starts with a speaker label.
HasLabelledLine(text) ==
    \E i \in 1..(Len(text) - 2) :
        text[i] = NL /\ text[i + 1] \in Roles /\ text[i + 2] = ": "

IsPrefix(a, b) == Len(a) <= Len(b) /\ SubSeq(b, 1, Len(a)) = a

----------------------------------------------------------------------------
(* Properties of the conversation memory *)

\* C1: the text predict sends to the model is the prompt head, then the
\* rendering of every turn submitted in earlier calls in their order, then the
\* new input as a Human line (and the open AI line): with 2(n-1) prior turns in
\* round n, and the input alone on an empty conversation.
C1_PayloadIsHistoryThenInput ==
    [][last'.op = "predict" =>
        last'.sent[1] =
            Preamble \o RenderedTurns(submitted[last'.session])
                \o <<NL, "Human", ": ">> \o last'.input \o <<NL, "AI", ":">>]_vars

\* A second round has been completed on a conversation that held the first.
C1_Witness ==
    /\ last.op = "predict" /\ last.outcome = "ok"
    /\ Len(submitted[last.session]) = 4
    /\ CountTurns(last.sent[1]) >= 3

\* C2: a conversation's turns only grow at the end: every turn stays at its
\* position with its role and text, and the turns are those submitted, in the
\* order of submission.
C2_AppendOnly ==
    [][\A s \in Sessions :
        /\ IsPrefix(memory[s], memory'[s])
        /\ memory'[s] = submitted'[s]]_vars

\* A conversation that has grown to three turns or more.
C2_Witness ==
    \E s \in created : Len(memory[s]) >= 3 /\ last.op \in {"append", "predict"}


\* The turns submitted to the conversation whose rendering was just returned.
RenderedOf == submitted[last.session]

\* C3 as stated: the number of turns found in the output of render equals the
\* number of appends that succeeded.
C3_TurnCountAsStated ==
    last.op = "render" => CountTurns(last.output) = Len(RenderedOf)

\* C3, amended: the output of render is one "<role>: <text>" segment per
\* successful append, in call order, joined by line breaks; and the number of
\* labelled lines in it equals the number of successful appends whenever no
\* appended text itself holds a line that starts with a speaker label.
C3_RenderIsTheAppendsInOrder ==
    last.op = "render" =>
        /\ last.output = RenderedTurns(RenderedOf)
        /\ (\A i \in 1..Len(RenderedOf) : ~HasLabelledLine(RenderedOf[i].content))
                => CountTurns(last.output) = Len(RenderedOf)

\* A rendering of three turns or more, one of them spanning several lines,
\* none holding a labelled line.
C3_Witness ==
    /\ last.op = "render"
    /\ Len(RenderedOf) >= 3
    /\ \E i \in 1..Len(RenderedOf) : RenderedOf[i].content = <<"a", NL, "b">>
    /\ \A i \in 1..Len(RenderedOf) : ~HasLabelledLine(RenderedOf[i].content)
    /\ CountTurns(last.output) = Len(RenderedOf)

\* C4: render leaves every conversation as it was and its output is fixed by
\* the conversation's turns alone, so that a render that directly follows a
\* render of the same conversation returns the same output.
C4_RenderIsPure ==
    [][last'.op = "render" =>
        /\ memory' = memory
        /\ last'.output = RenderedTurns(memory'[last'.session])
        /\ (last.op = "render" /\ last.session = last'.session)
                => last'.output = last.output]_vars

\* A non-empty conversation has been rendered and is still in place.
C4_Witness ==
    /\ last.op = "render"
    /\ Len(memory[last.session]) >= 2
    /\ last.output = RenderedTurns(memory[last.session])

\* C5: a predict whose model call returns extends the conversation by exactly
\* two turns, the input as a Human turn and then the model's text as an AI
\* turn, and returns that text.
C5_RoundAddsUserThenAgent ==
    [][(last'.op = "predict" /\ last'.llm_error = "none") =>
        /\ last'.outcome = "ok"
        /\ memory'[last'.session] =
                memory[last'.session]
                    \o <<Message("Human", last'.input), Message("AI", last'.llm_output)>>
        /\ last'.output = last'.llm_output]_vars

\* A round has succeeded on a conversation that already held turns.
C5_Witness ==
    /\ last.op = "predict" /\ last.outcome = "ok"
    /\ Len(memory[last.session]) >= 3
    /\ last.output \in ModelTexts

\* C6: a predict whose model call raises leaves the conversation as it was
\* before the call: neither the input nor an answer is recorded.
C6_FailedRoundLeavesTranscript ==
    [][(last'.op = "predict" /\ last'.llm_error # "none") => memory' = memory]_vars

\* A round has failed on a non-empty conversation.
C6_Witness ==
    /\ last.op = "predict" /\ last.llm_error # "none"
    /\ memory[last.session] # <<>>

\* C7: when the model call raises, predict fails toward its caller with that
\* same error: it does not return, and raises no other error.
C7_ErrorSurfacesUnchanged ==
    (last.op = "predict" /\ last.llm_error # "none") =>
        /\ last.outcome = "error"
        /\ last.error = last.llm_error
        /\ last.output = <<>>

\* A round has failed with the rate-limit error of the model client.
C7_Witness ==
    /\ last.op = "predict"
    /\ last.llm_error = "RateLimitError"
    /\ last.error = "RateLimitError"

\* C8: every predict calls the model exactly once, whether the call returns or
\* raises.
C8_ExactlyOneInvocation ==
    last.op = "predict" => Len(last.sent) = 1

\* A failed round that made its single call.
C8_Witness ==
    /\ last.op = "predict" /\ last.outcome = "error"
    /\ Len(last.sent) = 1

\* C9: appendTurn with a role outside {Human, AI} fails with InvalidRoleError;
\* with one of the two roles it succeeds and puts the turn at the end.
C9_RoleIsValidated ==
    [][last'.op = "append" =>
        IF last'.role \in Roles
        THEN /\ last'.outcome = "ok"
             /\ memory'[last'.session] =
                    Append(memory[last'.session], Message(last'.role, last'.input))
        ELSE /\ last'.outcome = "error"
             /\ last'.error = "InvalidRoleError"]_vars

\* An append with the role "system" has been refused on a conversation that
\* holds turns appended before.
C9_Witness ==
    /\ last.op = "append" /\ last.role = "system"
    /\ last.error = "InvalidRoleError"
    /\ memory[last.session] # <<>>

----------------------------------------------------------------------------
(* Properties of the prompt template *)

Delimiters == {"{", "}"}

\* The number of times ch occurs in text.
Count(text, ch) == Cardinality({k \in 1..Len(text) : text[k] = ch})

\* A text that holds a placeholder token: "{", one name character or more, "}".
HasPlaceholderToken(text) ==
    \E i \in 1..Len(text), j \in 1..Len(text) :
        /\ i + 1 < j
        /\ text[i] = "{" /\ text[j] = "}"
        /\ \A k \in (i + 1)..(j - 1) : text[k] \notin Delimiters

\* The positions a value has characters at.
ValuePositions == UNION {DOMAIN v : v \in Values}

\* The last call was an invoke whose variables include every declared name.
InvokedWithAllVariables ==
    /\ result.op = "invoke"
    /\ prompt.input_variables \subseteq DOMAIN result.variables

\* C10 as stated: with every declared name given, the invoke succeeds and no
\* placeholder token remains in its output.
C10_NoTokenAsStated ==
    InvokedWithAllVariables =>
        /\ result.outcome = "ok"
        /\ ~HasPlaceholderToken(result.text)

\* C10, amended: with every declared name given, the invoke succeeds and every
\* placeholder of the template is replaced: each delimiter character of the
\* output is either an escaped (doubled) brace of the template or part of a
\* substituted value. With no escaped brace in the template and no delimiter
\* in the values, the output holds no delimiter at all.
C10_EveryPlaceholderResolved ==
    InvokedWithAllVariables =>
        /\ result.outcome = "ok"
        /\ \A ch \in Delimiters :
              Count(result.text, ch) =
                  Cardinality({i \in 1..Len(Pieces) : Pieces[i] = Literal(<<ch>>)})
                  + Cardinality({ik \in (1..Len(Pieces)) \X ValuePositions :
                        /\ Pieces[ik[1]].kind = "field"
                        /\ ik[2] <= Len(result.variables[Pieces[ik[1]].text])
                        /\ result.variables[Pieces[ik[1]].text][ik[2]] = ch})

\* A template with two placeholders and literal text has been resolved with
\* plain values, and its output holds no delimiter.
C10_Witness ==
    /\ InvokedWithAllVariables
    /\ result.outcome = "ok"
    /\ Cardinality(prompt.input_variables) = 2
    /\ \E i \in 1..Len(Pieces) : Pieces[i].kind = "literal"
    /\ \A ch \in Delimiters : Count(result.text, ch) = 0
    /\ Len(result.text) >= 3

----------------------------------------------------------------------------
(* C11 *)

\* The variables the template declares.
Declared == get_template_variables(Pieces)

\* C11: when the dictionary given to invoke covers every declared variable
\* but one, k, the invoke fails with MissingVariableError and the error names
\* k and no other variable.
C11_OneMissingKeyIsNamed ==
    \A k \in Declared :
        (/\ result.op = "invoke"
         /\ Declared \ {k} \subseteq DOMAIN result.variables
         /\ k \notin DOMAIN result.variables)
        => /\ result.outcome = "error"
           /\ result.error = "MissingVariableError"
           /\ result.missing = {k}
           /\ result.text = <<>>

\* Witness: a template with two placeholders is invoked with one of the two
\* keys removed, and the error names the removed key alone.
C11_Witness ==
    /\ result.op = "invoke"
    /\ Declared = Names
    /\ \E k \in Names : /\ DOMAIN result.variables = Names \ {k}
                        /\ result.missing = {k}
    /\ result.error = "MissingVariableError"

----------------------------------------------------------------------------
(* One chain invoked several times: "for text in texts: chain.invoke(...)" *)

\* The templates of the repeated-invoke specification.
ReusedTemplateStrings == {t \in TemplateStrings : Len(t) <= MaxTemplateLen - 2}

InitReused ==
    /\ InitConversations
    /\ prompt_template \in ReusedTemplateStrings
    /\ prompt = NoPrompt
    /\ result = NoResult
    /\ InitHistory

\* The history of an invoke step: either the new call becomes the remembered
\* one, or the remembered call is kept and the call that was last so far
\* counts as one made in between when its variables differ.
Remember ==
    earlier' \in
        { [call |-> result', between |-> FALSE],
          [earlier EXCEPT !.between =
               @ \/ (/\ earlier.call.op = "invoke"
                     /\ result.variables # earlier.call.variables)] }

NextReused ==
    \/ from_template /\ UNCHANGED hvars
    \/ \E variables \in Mappings : invoke(variables) /\ Remember
                                        /\ UNCHANGED <<rounds, previous>>

SpecReused == InitReused /\ [][NextReused]_vars

----------------------------------------------------------------------------
(* C12 *)

\* C12: two invokes of the same chain with the same variables give the same
\* result (outcome, error, text, and text sent on), whatever other invokes
\* of that chain were made between them.
C12_SameVariablesSameResult ==
    (/\ result.op = "invoke"
     /\ earlier.call.op = "invoke"
     /\ earlier.call.variables = result.variables)
    => result = earlier.call

\* Witness: an invoke repeats the variables of an earlier successful one
\* after an invoke with other variables, and a value was substituted.
C12_Witness ==
    /\ result.op = "invoke"
    /\ earlier.call.op = "invoke"
    /\ earlier.between
    /\ earlier.call.variables = result.variables
    /\ result.outcome = "ok"
    /\ Declared # {}

----------------------------------------------------------------------------
(* C13, C14, C15: where each piece of the template lands in the output *)

\* The number of characters piece i contributes: a literal its own text, a
\* field the value given for its name.
Width(i) ==
    IF Pieces[i].kind = "field" THEN Len(result.variables[Pieces[i].text])
    ELSE Len(Pieces[i].text)

\* The characters contributed by the first n pieces.
RECURSIVE WidthUpTo(_)
WidthUpTo(n) == IF n = 0 THEN 0 ELSE WidthUpTo(n - 1) + Width(n)

\* The part of the output that piece i stands at.
Segment(i) == SubSeq(result.text, WidthUpTo(i - 1) + 1, WidthUpTo(i))

\* The field pieces of the template.
FieldPieces == {i \in 1..Len(Pieces) : Pieces[i].kind = "field"}

\* The last call was an invoke that succeeded.
InvokeSucceeded == result.op = "invoke" /\ result.outcome = "ok"

\* C13: a value is inserted as it is, in one pass: where a placeholder stood
\* the output holds the value character for character, also when the value
\* is itself a placeholder token naming a key of the dictionary, and the
\* output is finite, of exactly the length of the pieces.
C13_ValuesAreInsertedVerbatim ==
    InvokeSucceeded =>
        /\ Len(result.text) = WidthUpTo(Len(Pieces))
        /\ \A i \in FieldPieces : Segment(i) = result.variables[Pieces[i].text]

\* Witness: the value of b is the token "{a}", a is given another value, and
\* the output of a template that uses b holds the token, not a's value.
C13_Witness ==
    /\ InvokeSucceeded
    /\ DOMAIN result.variables = Names
    /\ result.variables[<<"b">>] = <<"{", "a", "}">>
    /\ result.variables[<<"a">>] = <<"v">>
    /\ \E i \in FieldPieces : /\ Pieces[i].text = <<"b">>
                              /\ Segment(i) = <<"{", "a", "}">>

\* The field pieces whose name is given the value v.
FieldsWithValue(v) ==
    {i \in FieldPieces : result.variables[Pieces[i].text] = v}

\* C14: every occurrence of a placeholder is replaced, not only the first,
\* and all occurrences of one name receive the same value: the output holds
\* the value "v" once per occurrence of a placeholder that is given "v", and
\* any two occurrences of one name stand for equal text.
C14_EveryOccurrenceIsReplaced ==
    InvokeSucceeded =>
        /\ Count(result.text, "v") = Cardinality(FieldsWithValue(<<"v">>))
        /\ \A i, j \in FieldPieces :
               Pieces[i].text = Pieces[j].text => Segment(i) = Segment(j)

\* Witness: one name occurs twice with literal text between the occurrences,
\* and its value is in the output twice.
C14_Witness ==
    /\ InvokeSucceeded
    /\ \E i, j \in FieldPieces :
           /\ i + 1 < j
           /\ Pieces[i].text = Pieces[j].text
           /\ result.variables[Pieces[i].text] = <<"v">>
    /\ Count(result.text, "v") = 2

\* C15: the output is the literal pieces and the substituted values one after
\* the other in the order of the template, with nothing before, between or
\* after them; "{a}{b}" gives the two values joined.
C15_OutputIsTheConcatenation ==
    InvokeSucceeded =>
        /\ Len(result.text) = WidthUpTo(Len(Pieces))
        /\ \A i \in 1..Len(Pieces) :
               Segment(i) = IF i \in FieldPieces
                            THEN result.variables[Pieces[i].text]
                            ELSE Pieces[i].text
        /\ (prompt_template = <<"{", "a", "}", "{", "b", "}">>
              => result.text = result.variables[<<"a">>]
                                 \o result.variables[<<"b">>])

\* Witness: the template "{a}{b}" is formatted and the output is the two
\* values with nothing between them.
C15_Witness ==
    /\ InvokeSucceeded
    /\ prompt_template = <<"{", "a", "}", "{", "b", "}">>
    /\ result.variables[<<"a">>] = <<"v">>
    /\ result.variables[<<"b">>] = <<"v">>
    /\ result.text = <<"v", "v">>

----------------------------------------------------------------------------
(* C16 *)

\* A format string without replacement fields read as text: each doubled
\* brace stands for one brace, every other character for itself.
RECURSIVE Unescape(_)
Unescape(t) ==
    IF t = <<>> THEN <<>>
    ELSE IF t[1] \in Delimiters /\ Len(t) >= 2
         THEN <<t[1]>> \o Unescape(SubSeq(t, 3, Len(t)))
         ELSE <<t[1]>> \o Unescape(Tail(t))

\* The last call was an invoke of a template that declares no variable.
InvokedWithoutPlaceholders == result.op = "invoke" /\ Declared = {}

\* C16 as stated: a template with no placeholders resolves to exactly its
\* own text for every dictionary.
C16_ResolvesToItselfAsStated ==
    InvokedWithoutPlaceholders =>
        result.outcome = "ok" /\ result.text = prompt_template

\* C16: a template with no placeholders resolves, for every dictionary and
\* the empty one too, to its own text with each doubled brace written once;
\* a template with no brace at all resolves to exactly its own text.
C16_ResolvesToItsUnescapedText ==
    InvokedWithoutPlaceholders =>
        /\ result.outcome = "ok"
        /\ result.text = Unescape(prompt_template)
        /\ ((\A ch \in Delimiters : Count(prompt_template, ch) = 0)
              => result.text = prompt_template)

\* Witness: a template of literal characters and an escaped brace, with no
\* placeholder, is invoked with the empty dictionary.
C16_Witness ==
    /\ InvokedWithoutPlaceholders
    /\ DOMAIN result.variables = {}
    /\ result.outcome = "ok"
    /\ Count(prompt_template, "{") = 2
    /\ Count(prompt_template, "a") >= 1
    /\ Count(result.text, "{") = 1
    /\ Len(result.text) = Len(prompt_template) - 1

----------------------------------------------------------------------------
(* C17 *)

\* The dictionary m without the keys the template does not declare.
Restricted(m) == [n \in DOMAIN m \cap Declared |-> m[n]]

\* What of a call's record the caller sees.
Observed(call) ==
    [outcome |-> call.outcome, error |-> call.error,
     missing |-> call.missing, text |-> call.text, sent |-> call.sent]

\* C17: keys that are not placeholders of the template are ignored: an
\* invoke with a dictionary m and an invoke of the same chain with m
\* restricted to the declared names succeed or fail alike and give the same
\* output.
C17_ExtraKeysAreIgnored ==
    (/\ result.op = "invoke"
     /\ earlier.call.op = "invoke"
     /\ \/ earlier.call.variables = Restricted(result.variables)
        \/ result.variables = Restricted(earlier.call.variables))
    => Observed(result) = Observed(earlier.call)

\* Witness: a template that declares a alone is invoked with a alone and
\* then with a and the undeclared b, and both invokes succeed.
C17_Witness ==
    /\ result.op = "invoke"
    /\ earlier.call.op = "invoke"
    /\ Declared = {<<"a">>}
    /\ DOMAIN result.variables = Names
    /\ earlier.call.variables = Restricted(result.variables)
    /\ result.outcome = "ok"
    /\ result.text = earlier.call.text
    /\ Len(result.text) >= 1

----------------------------------------------------------------------------
(* Template strings whose placeholder names are not all identifiers *)

DigitChars == {"1"}
LetterChars == TemplateChars \ Delimiters

\* The template strings of the parsing specification: braces, letters and a
\* digit.
ParsedTemplateStrings ==
    UNION {[1..n -> TemplateChars \cup DigitChars] : n \in 0..(MaxTemplateLen - 2)}

InitParsed ==
    /\ InitConversations
    /\ prompt_template \in ParsedTemplateStrings
    /\ prompt = NoPrompt
    /\ result = NoResult
    /\ InitHistory

SpecParsed == InitParsed /\ [][NextTemplate]_vars

----------------------------------------------------------------------------
(* C18 *)

\* A name that is an identifier: letters and digits, the first a letter.
IsIdentifier(name) ==
    /\ name # <<>>
    /\ name[1] \in LetterChars
    /\ \A k \in 1..Len(name) : name[k] \in LetterChars \cup DigitChars

\* Position i holds an opening brace that is not half of a doubled brace.
OpensAt(t, i) ==
    /\ t[i] = "{"
    /\ i = 1 \/ t[i - 1] # "{"
    /\ i = Len(t) \/ t[i + 1] # "{"

\* A brace is opened and no closing brace follows it, as in "Unclosed {name".
OpenedNeverClosed(t) ==
    \E i \in 1..Len(t) :
        OpensAt(t, i) /\ \A k \in (i + 1)..Len(t) : t[k] # "}"

\* The string holds a placeholder token whose name, of one character or
\* more, is not an identifier.
HasInvalidToken(t) ==
    \E i \in 1..Len(t), j \in 1..Len(t) :
        /\ i + 1 < j
        /\ OpensAt(t, i) /\ t[j] = "}"
        /\ \A k \in (i + 1)..(j - 1) : t[k] \notin Delimiters
        /\ ~IsIdentifier(SubSeq(t, i + 1, j - 1))

\* C18: constructing the template fails with MalformedTemplateError when a
\* brace is opened and never closed or when a placeholder token is not a
\* valid identifier, and an invoke of a constructed template never fails
\* with MalformedTemplateError.
C18_MalformedIsRefusedAtParse ==
    /\ (/\ prompt.state # "none"
        /\ OpenedNeverClosed(prompt_template) \/ HasInvalidToken(prompt_template))
       => /\ prompt.state = "error"
          /\ prompt.error = "MalformedTemplateError"
    /\ result.error # "MalformedTemplateError"

----------------------------------------------------------------------------
(* C19 *)

\* The buffer of conversation s holds no message / holds one or more.
IsEmpty(s) == memory[s] = <<>>
IsNonEmpty(s) == memory[s] # <<>>

\* A step by which conversation s passes from one state to the other.
Lifecycle(s) ==
    /\ (s \notin created /\ s \in created') => memory'[s] = <<>>
    /\ (memory[s] # <<>>) => (memory'[s] # <<>>)
    /\ (memory[s] = <<>> /\ memory'[s] # <<>>)
         => /\ s \in created
            /\ last'.session = s
            /\ last'.op \in {"append", "predict"}
            /\ last'.outcome = "ok"
    /\ (/\ s \in created
        /\ last' # last
        /\ last'.session = s
        /\ last'.op \in {"append", "predict"}
        /\ last'.outcome = "ok")
         => memory'[s] # <<>>

\* In the state it is in, conversation s can be rendered and can be given a
\* round (a round that succeeds as long as the bound on turns leaves room
\* for its two messages).
StillCallable(s) ==
    /\ ENABLED render(s)
    /\ (TotalTurns + 2 <= MaxTurns) =>
           \A input \in UserTexts, r \in LLMOutcomes :
               r.ok => ENABLED predict(s, input, r)

\* C19: the buffer of a conversation is empty when the conversation is
\* constructed, becomes non-empty at the first successful append (a message
\* appended or a round completed) and never becomes empty again; in both
\* states the conversation can be rendered and given a round, so no state
\* of a conversation is terminal.
C19_EmptyThenNonEmptyForGood ==
    /\ [](\A s \in created : StillCallable(s))
    /\ [][\A s \in Sessions : Lifecycle(s)]_vars

\* Witness: one conversation holds a completed round, the other was
\* constructed and is still empty, and the empty one was just rendered.
C19_Witness ==
    /\ created = Sessions
    /\ \E s \in Sessions, e \in Sessions :
           /\ IsNonEmpty(s) /\ Len(memory[s]) >= 2
           /\ IsEmpty(e)
           /\ last.op = "render" /\ last.session = e /\ last.output = <<>>

----------------------------------------------------------------------------
(* One notebook: a conversation and a template chain side by side *)

\* The template strings of the notebook specification: one with a
\* placeholder, one without, one that cannot be constructed.
NotebookTemplates ==
    { <<"a", "{", "a", "}">>, <<"a", "b">>, <<"{", "a">> }

\* The conversation of the notebook specification.
NotebookSessions == {"conversation_1"}

InitNotebook ==
    /\ InitConversations
    /\ prompt_template \in NotebookTemplates
    /\ prompt = NoPrompt
    /\ result = NoResult
    /\ InitHistory

NextNotebook ==
    \/ \E s \in NotebookSessions : ConversationChain(s)
    \/ \E s \in NotebookSessions, input \in UserTexts, r \in LLMOutcomes :
            predict(s, input, r)
    \/ \E s \in NotebookSessions, role \in Roles \cup OtherRoles :
            \E text \in TextsOf(role) : appendTurn(s, role, text)
    \/ \E s \in NotebookSessions : render(s)
    \/ from_template /\ UNCHANGED hvars
    \/ \E variables \in Mappings : invoke(variables) /\ UNCHANGED hvars

SpecNotebook == InitNotebook /\ [][NextNotebook]_vars

----------------------------------------------------------------------------
(* C20 *)

\* The operations on a conversation other than a round sent nothing to the
\* model, and a round sent its one prompt.
OnlyRoundsSend ==
    /\ last.op \in {"none", "create", "append", "render"} => last.sent = <<>>
    /\ last.op = "predict" => Len(last.sent) = 1

----------------------------------------------------------------------------
(* C21 *)

\* The length of one turn as rendered: the label, the separator, the text.
TurnWidth(turn) == 2 + Len(turn.content)

\* The position in the rendering at which turn i of the turns starts: after
\* the turns before it and one line break for each of them.
RECURSIVE TurnStart(_, _)
TurnStart(turns, i) ==
    IF i = 1 THEN 1
    ELSE TurnStart(turns, i - 1) + TurnWidth(turns[i - 1]) + 1

\* The length of the rendering of the turns.
RenderedLen(turns) ==
    IF turns = <<>> THEN 0
    ELSE TurnStart(turns, Len(turns)) + TurnWidth(turns[Len(turns)]) - 1

\* C21: render writes each turn as "<role>: <text>" and joins the turns with
\* a line break, in their order: after a Human turn "hi" and an AI turn "ok"
\* on an empty conversation, render returns "Human: hi\nAI: ok".
C21_RenderFormat ==
    last.op = "render" =>
        LET turns == memory[last.session]
            out == last.output
        IN  /\ Len(out) = RenderedLen(turns)
            /\ \A i \in 1..Len(turns) :
                   /\ out[TurnStart(turns, i)] = turns[i].type
                   /\ out[TurnStart(turns, i) + 1] = ": "
                   /\ SubSeq(out, TurnStart(turns, i) + 2,
                             TurnStart(turns, i) + TurnWidth(turns[i]) - 1)
                        = turns[i].content
                   /\ i > 1 => out[TurnStart(turns, i) - 1] = NL
            /\ turns = <<Message("Human", <<"hi">>), Message("AI", <<"ok">>)>>
                 => out = <<"Human", ": ", "hi", NL, "AI", ": ", "ok">>

\* Witness: a conversation that was given the Human turn "hi" and then the
\* AI turn "ok" is rendered.
C21_Witness ==
    /\ last.op = "render"
    /\ submitted[last.session] =
           <<Message("Human", <<"hi">>), Message("AI", <<"ok">>)>>
    /\ last.output = <<"Human", ": ", "hi", NL, "AI", ": ", "ok">>

----------------------------------------------------------------------------
(* C22 *)

\* The conversations other than s.
Others(s) == Sessions \ {s}

\* A step is a call on one conversation, last'.session: every other
\* conversation keeps its messages and its history.
TouchesOneSession ==
    \A o \in Others(last'.session) :
        memory'[o] = memory[o] /\ submitted'[o] = submitted[o]

\* A step that constructs conversation s gives it an empty buffer, whatever
\* the other conversations hold.
NewSessionIsEmpty ==
    \A s \in Sessions :
        (s \notin created /\ s \in created')
            => /\ memory'[s] = <<>>
               /\ \A o \in Others(s) : memory'[o] = memory[o]

\* C22: two conversations share no state: under every interleaving of calls
\* on the two, each holds exactly the turns that were appended to it, a call
\* on one leaves the other as it was, and a new conversation starts empty
\* also when the other one already holds turns.
C22_SessionsAreIsolated ==
    /\ [](\A s \in Sessions : memory[s] = submitted[s])
    /\ [][TouchesOneSession /\ NewSessionIsEmpty]_vars

\* Witness: the second conversation was constructed and is empty while the
\* first one holds a round.
C22_Witness ==
    /\ created = Sessions
    /\ last.op = "create"
    /\ memory[last.session] = <<>>
    /\ \E o \in Others(last.session) : Len(memory[o]) >= 2

----------------------------------------------------------------------------
(* Two threads making rounds on one conversation without a lock *)

\* The conversation the threads share.
SharedSession == "conversation_1"

\* The threads that are in the middle of a round.
InFlight == {t \in Threads : rounds[t].pc \in {"called", "saving"}}

\* The messages the buffer holds or is yet to receive from the rounds that
\* were started.
Reserved ==
    Len(memory[SharedSession])
      + 2 * Cardinality({t \in Threads : rounds[t].pc = "called"})
      + Cardinality({t \in Threads : rounds[t].pc = "saving"})

\* The rounds after a write to the buffer by thread t (or by the caller of
\* appendTurn, when t is no thread): t's round becomes mine, and every other
\* round in flight has overlapped with a write.
RoundsAfterWrite(t, mine) ==
    [u \in Threads |->
        IF u = t THEN mine
        ELSE IF u \in InFlight THEN [rounds[u] EXCEPT !.overlap = TRUE]
        ELSE rounds[u]]

\* predict, first step: the memory is read for the prompt.
predict_load(t, input) ==
    /\ SharedSession \in created
    /\ rounds[t].pc = "idle"
    /\ Reserved + 2 <= MaxTurns
    /\ rounds' = [rounds EXCEPT ![t] =
            [NoRound EXCEPT !.pc = "called", !.input = input,
                            !.loaded = memory[SharedSession]]]
    /\ UNCHANGED <<cvars, prompt_template, prompt, result, earlier, previous>>

\* predict, second step: the model client, called with the prompt made from
\* what was read, returns, and the input is saved as a Human message.
predict_save_input(t, r) ==
    /\ rounds[t].pc = "called"
    /\ r.ok
    /\ memory' = [memory EXCEPT ![SharedSession] =
            add_message(@, Message("Human", rounds[t].input))]
    /\ submitted' = [submitted EXCEPT ![SharedSession] =
            @ \o <<Message("Human", rounds[t].input)>>]
    /\ rounds' = RoundsAfterWrite(t,
            [rounds[t] EXCEPT
                !.pc = "saving",
                !.sent = PredictSends(rounds[t].loaded, rounds[t].input, r),
                !.output = r.text,
                !.against = memory[SharedSession],
                !.human_at = Len(memory[SharedSession]) + 1])
    /\ UNCHANGED <<created, last, prompt_template, prompt, result, earlier, previous>>

\* predict, third step: the answer is saved as an AI message and returned.
predict_save_output(t) ==
    /\ rounds[t].pc = "saving"
    /\ memory' = [memory EXCEPT ![SharedSession] =
            add_message(@, Message("AI", rounds[t].output))]
    /\ submitted' = [submitted EXCEPT ![SharedSession] =
            @ \o <<Message("AI", rounds[t].output)>>]
    /\ rounds' = RoundsAfterWrite(t,
            [rounds[t] EXCEPT !.pc = "done",
                              !.ai_at = Len(memory[SharedSession]) + 1])
    /\ UNCHANGED <<created, last, prompt_template, prompt, result, earlier, previous>>

\* predict, second step when the model client raises: the round ends with
\* the error and saves nothing.
predict_raises(t, r) ==
    /\ rounds[t].pc = "called"
    /\ ~r.ok
    /\ memory' = [memory EXCEPT ![SharedSession] =
            BufferAfterFailure(@, rounds[t].input)]
    /\ rounds' = [rounds EXCEPT ![t] =
            [@ EXCEPT !.pc = "failed",
                      !.sent = PredictSends(rounds[t].loaded, rounds[t].input, r)]]
    /\ UNCHANGED <<created, last, submitted, prompt_template, prompt, result,
                   earlier, previous>>

\* appendTurn by the caller while rounds may be in flight.
appendTurn_unsynchronized(role, text) ==
    /\ SharedSession \in created
    /\ ValidRole(role)
    /\ Reserved < MaxTurns
    /\ memory' = [memory EXCEPT ![SharedSession] =
            add_message(@, Message(role, text))]
    /\ submitted' = [submitted EXCEPT ![SharedSession] =
            @ \o <<Message(role, text)>>]
    /\ last' = [NoCall EXCEPT !.op = "append", !.session = SharedSession,
                              !.role = role, !.input = text, !.outcome = "ok"]
    /\ rounds' = RoundsAfterWrite("caller", NoRound)
    /\ UNCHANGED <<created, prompt_template, prompt, result, earlier, previous>>

InitConcurrent ==
    /\ InitConversations
    /\ prompt_template = <<>>
    /\ prompt = NoPrompt
    /\ result = NoResult
    /\ InitHistory

NextConcurrent ==
    \/ ConversationChain(SharedSession)
    \/ \E t \in Threads, input \in UserTexts : predict_load(t, input)
    \/ \E t \in Threads, r \in LLMOutcomes : predict_save_input(t, r)
    \/ \E t \in Threads, r \in LLMOutcomes : predict_raises(t, r)
    \/ \E t \in Threads : predict_save_output(t)
    \/ \E role \in Roles : \E text \in TextsOf(role) :
            appendTurn_unsynchronized(role, text)

SpecConcurrent == InitConcurrent /\ [][NextConcurrent]_vars

----------------------------------------------------------------------------
(* C23 *)

\* Thread t has completed a round.
RoundDone(t) == rounds[t].pc = "done"

\* The prompt sent for t's round is not the prompt of the buffer the round
\* was recorded against.
StalePayload(t) ==
    /\ RoundDone(t)
    /\ rounds[t].sent #
         << PromptAfterFormatting(RenderedTurns(rounds[t].against), rounds[t].input) >>

\* The two messages of t's round stand next to each other in the buffer,
\* the Human message first.
RoundTurnsAdjacent(t) ==
    /\ rounds[t].ai_at = rounds[t].human_at + 1
    /\ rounds[t].ai_at <= Len(memory[SharedSession])
    /\ memory[SharedSession][rounds[t].human_at] = Message("Human", rounds[t].input)
    /\ memory[SharedSession][rounds[t].ai_at] = Message("AI", rounds[t].output)

\* C23: a conversation is not safe for rounds that overlap: without a lock
\* a round can be recorded against a buffer other than the one its prompt
\* was made from, and the messages of two rounds can be interleaved; a round
\* that no write overlapped shows neither.
C23_AnomaliesNeedOverlap ==
    \A t \in Threads :
        (RoundDone(t) /\ ~rounds[t].overlap)
            => ~StalePayload(t) /\ RoundTurnsAdjacent(t)

\* Witness: two rounds overlapped; the prompt of one was made from a buffer
\* that was not the one it was recorded against, and the messages of the
\* other are apart in the buffer.
C23_Witness ==
    \E t \in Threads, u \in Threads :
        /\ t # u
        /\ RoundDone(t) /\ RoundDone(u)
        /\ StalePayload(t)
        /\ ~RoundTurnsAdjacent(u)
        /\ memory[SharedSession][1].type = "Human"
        /\ memory[SharedSession][2].type = "Human"

----------------------------------------------------------------------------
(* C24 *)

\* The prompt of a round on conversation s with the given input, had the
\* input of a failed attempt been left in the buffer as a Human message.
PromptWithDuplicate(s, input) ==
    PromptAfterFormatting(
        RenderedTurns(memory[s] \o <<Message("Human", input)>>), input)

\* The round that just failed is tried again and its prompt holds the Human
\* message of the failed attempt besides the input.
DuplicatingRetry ==
    \E r \in LLMOutcomes :
        /\ predict(last.session, last.input, r)
        /\ last'.sent = <<PromptWithDuplicate(last.session, last.input)>>

----------------------------------------------------------------------------
(* C25 *)

\* C25: the variables a template declares are computed when it is
\* constructed, from its string, and are the same after any number of
\* invokes, failed or successful, with any dictionaries: no invoke changes
\* the template object.
C25_DeclaredSetIsFixed ==
    /\ [](prompt.state = "ok" => prompt.input_variables = Declared)
    /\ [][prompt.state # "none" => prompt' = prompt /\ prompt_template' = prompt_template]_vars

\* Witness: a template that declares a variable was invoked with a
\* dictionary that lacks it and failed, and then, after an invoke with other
\* variables, with one that has it and a key it does not declare, and still
\* declares what it declared.
C25_Witness ==
    /\ prompt.state = "ok"
    /\ prompt.input_variables = {<<"a">>}
    /\ earlier.call.op = "invoke" /\ earlier.call.outcome = "error"
    /\ earlier.between
    /\ InvokeSucceeded
    /\ DOMAIN result.variables = Names

----------------------------------------------------------------------------
(* Conversations driven by rounds alone, one call after the other *)

NextRounds ==
    \/ \E s \in Sessions : ConversationChain(s)
    \/ \E s \in Sessions, input \in UserTexts, r \in LLMOutcomes : predict(s, input, r)

SpecRounds == Init /\ [][NextRounds]_vars

----------------------------------------------------------------------------
(* C26 *)

\* The speaker of the message at position i of a conversation made of
\* rounds.
SpeakerAt(i) == IF i % 2 = 1 THEN "Human" ELSE "AI"

\* C26: in a conversation driven by rounds alone, made one after the other
\* from an empty buffer, the buffer has even length, two messages for each
\* round that succeeded, and its messages alternate Human, AI, Human, AI,
\* beginning with Human, whatever rounds failed in between.
C26_RoundsAlternate ==
    /\ [](\A s \in Sessions :
            /\ Len(memory[s]) % 2 = 0
            /\ \A i \in 1..Len(memory[s]) : memory[s][i].type = SpeakerAt(i))
    /\ [][last'.op = "predict" =>
            Len(memory'[last'.session]) =
                Len(memory[last'.session])
                    + (IF last'.outcome = "ok" THEN 2 ELSE 0)]_vars

\* Witness: a conversation holds two rounds, Human, AI, Human, AI, and a
\* third round on it has just failed.
C26_Witness ==
    /\ last.op = "predict" /\ last.outcome = "error"
    /\ Len(memory[last.session]) = 4
    /\ \A i \in 1..4 : memory[last.session][i].type = SpeakerAt(i)

----------------------------------------------------------------------------
(* C27 *)

\* The appendTurn that was just made was refused.
AppendRefused(call) == call.op = "append" /\ call.outcome = "error"

\* C27: an appendTurn that fails with InvalidRoleError leaves the
\* conversation as it was: its turns are the same before and after the
\* call, and so is what render returns: a render made right before the call
\* and a render made right after it return the rendering of the same turns.
C27_RefusedAppendChangesNothing ==
    [][/\ AppendRefused(last') =>
            /\ last'.error = "InvalidRoleError"
            /\ memory' = memory
            /\ submitted' = submitted
            /\ get_buffer_string(memory'[last'.session])
                 = get_buffer_string(memory[last'.session])
            /\ (last.op = "render" /\ last.session = last'.session)
                 => get_buffer_string(memory'[last'.session]) = last.output
       /\ (AppendRefused(last) /\ last'.op = "render"
             /\ last'.session = last.session)
            => last'.output = get_buffer_string(memory[last.session])]_vars

\* Witness: a conversation that holds a round, with a multi-line answer, has
\* refused a turn, and holds what it held.
C27_Witness ==
    /\ AppendRefused(last)
    /\ Len(memory[last.session]) >= 2
    /\ memory[last.session] = submitted[last.session]
    /\ memory[last.session][2] = Message("AI", <<"a", NL, "b">>)
    /\ last.input = <<"hi">>

----------------------------------------------------------------------------
(* Single-turn use: llm.invoke(prompt), next to a conversation *)

\* Faulty variant: the client keeps the text of the call before and sends
\* it in front of the prompt.
LLMInvokeSends_stateful(input) == <<last.input \o input>>

\* What llm.invoke(prompt) sends to the model: the prompt.
LLMInvokeSends(input) == <<input>>

\* llm.invoke(prompt): the prompt goes to the model, and the answer, or the
\* error, comes back.
llm_invoke(input, r) ==
    /\ last' = [NoCall EXCEPT !.op = "llm", !.input = input,
                              !.outcome = IF r.ok THEN "ok" ELSE "error",
                              !.sent = LLMInvokeSends(input),
                              !.llm_output = r.text, !.output = r.text,
                              !.llm_error = r.error, !.error = r.error]
    /\ previous' = last
    /\ UNCHANGED <<created, memory, submitted, prompt_template, prompt, result,
                   earlier, rounds>>

NextSingleTurn ==
    \/ \E input \in UserTexts, r \in LLMOutcomes : llm_invoke(input, r)
    \/ \E s \in NotebookSessions : ConversationChain(s)
    \/ \E s \in NotebookSessions, input \in UserTexts, r \in LLMOutcomes :
            predict(s, input, r)
    \/ from_template /\ UNCHANGED hvars
    \/ \E variables \in Mappings : invoke(variables) /\ UNCHANGED hvars

SpecSingleTurn == InitNotebook /\ [][NextSingleTurn]_vars

----------------------------------------------------------------------------
(* C28 *)

\* C28: in single-turn use, a direct llm.invoke of a prompt or an invoke of
\* a template chain, the text sent to the model is exactly the text of that
\* prompt, whatever was asked and answered before, and the call leaves
\* nothing behind; a round of a conversation that holds earlier rounds
\* sends those rounds with its input.
C28_SingleTurnCarriesNoState ==
    /\ [](/\ last.op = "llm" => last.sent = <<last.input>>
          /\ InvokeSucceeded => result.sent = <<result.text>>
          /\ (last.op = "predict" /\ submitted[SharedSession] # <<>>
                /\ (last.outcome = "ok" => Len(submitted[SharedSession]) >= 4))
               => /\ last.sent # <<last.input>>
                  /\ last.sent # <<PromptAfterFormatting(<<>>, last.input)>>)
    /\ [][last'.op = "llm" => memory' = memory /\ submitted' = submitted]_vars

\* Witness: two direct calls one after the other, with different prompts,
\* the first answered, next to a conversation that holds a round and a
\* template chain that was invoked: the second call sent its prompt alone.
C28_Witness ==
    /\ last.op = "llm" /\ previous.op = "llm"
    /\ previous.input # last.input
    /\ previous.llm_output # <<>>
    /\ last.sent = <<last.input>>
    /\ Len(memory[SharedSession]) >= 2
    /\ InvokeSucceeded /\ Declared # {}
    /\ result.sent = <<result.text>>

====
